---------------------------- MODULE Spec2Model ----------------------------
(***************************************************************************)
(* Model of the emission-calculation engine of HospitalWasteManagement:    *)
(* src/config.py (factor and composition tables), src/waste_stream.py      *)
(* (WasteStream, adjust_for_segregation), src/processes/incineration.py    *)
(* and src/processes/pyrolysis.py (calculate_direct_emissions).            *)
(*                                                                         *)
(* Numbers.  Every fraction, factor, mass and emission of the program is a *)
(* Python float, an IEEE-754 binary64 value, and every + - * / rounds to   *)
(* nearest, ties to even.  The model computes exactly that: a float is     *)
(*     [neg |-> BOOLEAN, m |-> significand, e |-> exponent]                *)
(* of value (-1)^neg * m * 2^e, where m is a natural number of exactly     *)
(* Prec bits (or 0), held as a little-endian sequence of limbs in base     *)
(* 2^15 because TLC's integers are 32 bits wide.  Not modelled: the        *)
(* exponent range (overflow to inf, subnormals), NaN, and the sign of      *)
(* zero (Python's == does not tell -0.0 from 0.0).  pint units are not     *)
(* modelled: every mass is a magnitude in kg, every emission one in kg.    *)
(***************************************************************************)
EXTENDS Integers, Sequences, FiniteSets, TLC

(***************************************************************************)
(* Natural numbers of any size: little-endian limb sequences, no leading   *)
(* zero limb, zero is << >>.                                               *)
(***************************************************************************)
Base == 2^15

\* bits of a Python float's significand (binary64)
Prec == 53

\* limb i (from 1, least significant first), 0 beyond the end
Limb(a, i) == IF i \in 1..Len(a) THEN a[i] ELSE 0

BTrim(a) ==
    IF \A i \in 1..Len(a) : a[i] = 0 THEN << >>
    ELSE SubSeq(a, 1, CHOOSE i \in 1..Len(a) :
                          a[i] # 0 /\ \A j \in (i + 1)..Len(a) : a[j] = 0)

\* 0 <= n < 2^31
BFromNat(n) == BTrim(<<n % Base, (n \div Base) % Base, n \div (Base * Base)>>)

BAdd(a, b) ==
    LET n        == (IF Len(a) > Len(b) THEN Len(a) ELSE Len(b)) + 1
        s(i)     == Limb(a, i) + Limb(b, i)
        carry(i) == IF \E j \in 1..(i - 1) :
                           s(j) >= Base /\ \A k \in (j + 1)..(i - 1) : s(k) = Base - 1
                    THEN 1 ELSE 0
    IN  BTrim(SubSeq([i \in 1..n |-> (s(i) + carry(i)) % Base], 1, n))

\* a - b for a >= b
BSub(a, b) ==
    LET d(i)      == Limb(a, i) - Limb(b, i)
        borrow(i) == IF \E j \in 1..(i - 1) :
                            d(j) < 0 /\ \A k \in (j + 1)..(i - 1) : d(k) = 0
                     THEN 1 ELSE 0
    IN  BTrim(SubSeq([i \in 1..Len(a) |-> (d(i) - borrow(i) + Base) % Base],
                     1, Len(a)))

\* -1, 0, 1 as a < b, a = b, a > b
BCmp(a, b) ==
    IF Len(a) # Len(b) THEN (IF Len(a) < Len(b) THEN -1 ELSE 1)
    ELSE IF \A i \in 1..Len(a) : a[i] = b[i] THEN 0
    ELSE LET i == CHOOSE i \in 1..Len(a) :
                      a[i] # b[i] /\ \A j \in (i + 1)..Len(a) : a[j] = b[j]
         IN  IF a[i] < b[i] THEN -1 ELSE 1

\* the number whose limb i is c[i], each c[i] < Base * Base: carries settled
BCarry(c) ==
    BAdd(SubSeq([i \in 1..Len(c) |-> c[i] % Base], 1, Len(c)),
         SubSeq([i \in 1..(Len(c) + 1) |->
                    IF i = 1 THEN 0 ELSE c[i - 1] \div Base], 1, Len(c) + 1))

\* a * b for a, b < 2^60 (four limbs), which every significand is: column k
\* sums the low halves of the limb products of weight k and the high halves
\* of those of weight k - 1
BMul(a, b) ==
    LET p(i, j) == Limb(a, i) * Limb(b, j)
    IN  BCarry(SubSeq([k \in 1..8 |->
                   (p(1, k) % Base) + (p(2, k - 1) % Base)
                 + (p(3, k - 2) % Base) + (p(4, k - 3) % Base)
                 + (p(1, k - 1) \div Base) + (p(2, k - 2) \div Base)
                 + (p(3, k - 3) \div Base) + (p(4, k - 4) \div Base)], 1, 8))

\* quotient and remainder of a by d, 1 <= d <= Base, a < 2^180 (twelve limbs):
\* long division from the most significant limb down
BDivSmall(a, d) ==
    LET c12 == Limb(a, 12)
        c11 == (c12 % d) * Base + Limb(a, 11)
        c10 == (c11 % d) * Base + Limb(a, 10)
        c9 == (c10 % d) * Base + Limb(a, 9)
        c8 == (c9 % d) * Base + Limb(a, 8)
        c7 == (c8 % d) * Base + Limb(a, 7)
        c6 == (c7 % d) * Base + Limb(a, 6)
        c5 == (c6 % d) * Base + Limb(a, 5)
        c4 == (c5 % d) * Base + Limb(a, 4)
        c3 == (c4 % d) * Base + Limb(a, 3)
        c2 == (c3 % d) * Base + Limb(a, 2)
        c1 == (c2 % d) * Base + Limb(a, 1)
    IN  [q |-> BTrim(<<c1 \div d, c2 \div d, c3 \div d, c4 \div d, c5 \div d, c6 \div d,
                     c7 \div d, c8 \div d, c9 \div d, c10 \div d, c11 \div d, c12 \div d>>),
         r |-> c1 % d]

\* number of bits of n, 0 <= n < Base
NatBitLen(n) == CHOOSE k \in 0..15 : n < 2^k /\ (k = 0 \/ 2^(k - 1) <= n)

BBitLen(a) ==
    IF a = << >> THEN 0 ELSE (Len(a) - 1) * 15 + NatBitLen(a[Len(a)])

\* a * 2^k
BShl(a, k) ==
    LET q == k \div 15
        r == k % 15
    IN  BTrim(SubSeq([i \in 1..(Len(a) + q + 1) |->
                         IF i <= q THEN 0
                         ELSE ((Limb(a, i - q) * 2^r) % Base)
                                + (Limb(a, i - q - 1) \div 2^(15 - r))],
                     1, Len(a) + q + 1))

\* a divided by 2^k, rounding down
BShr(a, k) ==
    LET q == k \div 15
        r == k % 15
    IN  IF q >= Len(a) THEN << >>
        ELSE BTrim(SubSeq([i \in 1..(Len(a) - q) |->
                             (Limb(a, i + q) \div 2^r)
                               + ((Limb(a, i + q + 1) % 2^r) * 2^(15 - r))],
                          1, Len(a) - q))

BBit(a, i) == (Limb(a, (i \div 15) + 1) \div 2^(i % 15)) % 2

\* the low k bits of a are all 0
BLowZero(a, k) ==
    /\ \A i \in 1..(k \div 15) : Limb(a, i) = 0
    /\ (Limb(a, (k \div 15) + 1) % 2^(k % 15)) = 0

(***************************************************************************)
(* Python floats.                                                          *)
(***************************************************************************)
FZero == [neg |-> FALSE, m |-> << >>, e |-> 0]

\* a significand that rounding up may have carried to Prec + 1 bits
FNorm(neg, q, e) ==
    IF BBitLen(q) > Prec THEN [neg |-> neg, m |-> BShr(q, 1), e |-> e + 1]
    ELSE [neg |-> neg, m |-> q, e |-> e]

\* n of L > Prec bits: q is n without its low L - Prec bits, up says whether
\* the bits dropped round q up
FRoundUp(neg, q, e, up) ==
    IF up THEN FNorm(neg, BAdd(q, <<1>>), e) ELSE [neg |-> neg, m |-> q, e |-> e]

\* n of L bits
FRoundLen(neg, n, e, sticky, L) ==
    IF L <= Prec
    THEN [neg |-> neg, m |-> BShl(n, Prec - L), e |-> e - (Prec - L)]
    ELSE FRoundUp(neg, BShr(n, L - Prec), e + (L - Prec),
                  /\ BBit(n, L - Prec - 1) = 1
                  /\ \/ sticky
                     \/ ~BLowZero(n, L - Prec - 1)
                     \/ BBit(n, L - Prec) = 1)

\* (-1)^neg * n * 2^e (plus a nonzero tail below n's last bit when sticky),
\* rounded to Prec bits, to nearest, ties to even
FRound(neg, n, e, sticky) ==
    IF n = << >> THEN FZero ELSE FRoundLen(neg, n, e, sticky, BBitLen(n))

\* float(i) for a Python int i
FInt(i) == FRound(i < 0, BFromNat(IF i < 0 THEN -i ELSE i), 0, FALSE)

FNeg(x) == IF x.m = << >> THEN x ELSE [x EXCEPT !.neg = ~x.neg]

FAbs(x) == [x EXCEPT !.neg = FALSE]

\* x * y
FMul(x, y) ==
    IF x.m = << >> \/ y.m = << >> THEN FZero
    ELSE FRound(x.neg # y.neg, BMul(x.m, y.m), x.e + y.e, FALSE)

\* |mx - my| for c = BCmp(mx, my)
BDiff(mx, my, c) == IF c > 0 THEN BSub(mx, my) ELSE BSub(my, mx)

\* xn, mx and yn, my are the signs and the significands at the common exponent e
FAddAligned(xn, mx, yn, my, e, c) ==
    FRound(IF xn = yn \/ c > 0 THEN xn ELSE yn,
           IF xn = yn THEN BAdd(mx, my) ELSE BDiff(mx, my, c), e, FALSE)

FAddShifted(xn, mx, yn, my, e) == FAddAligned(xn, mx, yn, my, e, BCmp(mx, my))

FAddAt(x, y, e) ==
    FAddShifted(x.neg, BShl(x.m, x.e - e), y.neg, BShl(y.m, y.e - e), e)

\* x + y
FAdd(x, y) ==
    IF x.m = << >> THEN y
    ELSE IF y.m = << >> THEN x
    ELSE FAddAt(x, y, IF x.e < y.e THEN x.e ELSE y.e)

\* x - y
FSub(x, y) == FAdd(x, FNeg(y))

\* -1, 0, 1 as x < y, x == y, x > y
FCmp(x, y) ==
    LET d == FSub(x, y) IN IF d.m = << >> THEN 0 ELSE IF d.neg THEN -1 ELSE 1

FLt(x, y) == FCmp(x, y) < 0

FLe(x, y) == FCmp(x, y) <= 0

\* a divided by 10^k, rounding down, four digits at a time; sticky records a
\* lost remainder
RECURSIVE BDivPow10(_, _, _)
RECURSIVE BDivNext(_, _, _)
BDivNext(x, k, sticky) ==
    IF x.r = 0 THEN BDivPow10(x.q, k, sticky) ELSE BDivPow10(x.q, k, TRUE)

BDivPow10(a, k, sticky) ==
    IF k = 0 THEN [q |-> a, r |-> IF sticky THEN 1 ELSE 0]
    ELSE BDivNext(BDivSmall(a, IF k >= 4 THEN 10000 ELSE 10^k),
                  IF k >= 4 THEN k - 4 ELSE 0, sticky)

\* n * 2^(-s) for a quotient n with remainder r
FQuotient(x, s) == FRound(FALSE, x.q, 0 - s, x.r # 0)

\* the float literal d * 10^(-k), d >= 0 (0.65 is Dec(65, 2), 4.3e-6 is Dec(43, 7)):
\* the nearest float to the decimal, as Python reads a literal
Dec(d, k) ==
    FQuotient(BDivPow10(BShl(BFromNat(d), Prec + 2 + 4 * k), k, FALSE),
              Prec + 2 + 4 * k)

\* a / b for Python ints a >= 0, 1 <= b <= Base
FDivInt(a, b) ==
    FQuotient(BDivSmall(BShl(BFromNat(a), Prec + 2 + 16), b), Prec + 2 + 16)

(***************************************************************************)
(* Python dicts are functions; d.get(k, default) is Get.                   *)
(***************************************************************************)
EmptyDict == [k \in {} |-> FZero]

Get(d, k, default) == IF k \in DOMAIN d THEN d[k] ELSE default

(***************************************************************************)
(* src/config.py                                                           *)
(***************************************************************************)
INCINERATION_FACTORS ==
    [carbon_content_fossil   |-> Dec(97, 3),
     carbon_content_biogenic |-> Dec(54, 3),
     energy_content          |-> Dec(53, 1),
     nitrogen_frac_organic   |-> Dec(91, 7),
     sulfur_frac_organic     |-> Dec(2, 4),
     so2_conversion          |-> Dec(85, 2),
     pm10_per_organic        |-> Dec(31, 6),
     pm25_per_organic        |-> Dec(217, 7),
     nox_per_waste           |-> Dec(43, 7),
     hg_volatilization       |-> Dec(465, 7),
     pb_volatilization       |-> Dec(6218, 7),
     combustion_efficiency   |-> Dec(97, 2),
     excess_air_ratio        |-> Dec(14, 1)]

PYROLYSIS_FACTORS ==
    [co2_fossil_per_organic |-> Dec(6887, 5),
     ch4_fossil_per_organic |-> Dec(4, 3),
     nmvoc_per_organic      |-> Dec(645, 6),
     pahs_per_organic       |-> Dec(179, 6),
     dioxin_per_chlorinated |-> Dec(371, 15),
     hg_per_mercury         |-> Dec(86, 8),
     pb_per_heavy_metal     |-> Dec(45, 8)]

DEFAULT_COMPOSITION ==
    [general_waste        |-> [non_hazardous |-> Dec(65, 2)],
     infectious_waste     |-> [body_fluids  |-> Dec(12, 2),
                               lab_cultures |-> Dec(6, 2)],
     sharps_waste         |-> [needles_sharps_plastic |-> Dec(2, 2),
                               needles_sharps_metal   |-> Dec(2, 2)],
     pharmaceutical_waste |-> [pharmaceuticals             |-> Dec(4, 2),
                               pharmaceuticals_halogenated |-> Dec(1, 2)],
     chemical_waste       |-> [lab_reagents               |-> Dec(3, 2),
                               lab_cultures_disinfectants |-> Dec(5, 3),
                               cytotoxic_organic          |-> Dec(15, 3),
                               cytotoxic_halogenated      |-> Dec(5, 3)],
     heavy_metals_waste   |-> [mercury_waste      |-> Dec(15, 3),
                               other_heavy_metals |-> Dec(15, 3)],
     radioactive_waste    |-> [radioactive_metals  |-> Dec(5, 3),
                               radioactive_organic |-> Dec(2, 3)]]

(***************************************************************************)
(* Quantities both processes derive from a composition.                    *)
(***************************************************************************)
\* fault: a missing entry read as the whole stream
FracDefaultOne(comp, cat, sub) == Get(Get(comp, cat, EmptyDict), sub, FInt(1))

\* waste.composition.get(cat, {}).get(sub, 0); Python's default 0 is an int,
\* which every sum and product here converts to the float 0.0
Frac(comp, cat, sub) == Get(Get(comp, cat, EmptyDict), sub, FZero)

\* the seven-term sum, added left to right
TotalOrganic(comp) ==
    FAdd(FAdd(FAdd(FAdd(FAdd(FAdd(
        Frac(comp, "general_waste", "non_hazardous"),
        Frac(comp, "infectious_waste", "body_fluids")),
        Frac(comp, "infectious_waste", "lab_cultures")),
        Frac(comp, "pharmaceutical_waste", "pharmaceuticals")),
        Frac(comp, "chemical_waste", "cytotoxic_organic")),
        Frac(comp, "radioactive_waste", "radioactive_organic")),
        Frac(comp, "sharps_waste", "needles_sharps_plastic"))

\* fault: the metal sharps counted as fossil organic matter too
FossilOrganicAllSharps(comp) ==
    FAdd(Frac(comp, "sharps_waste", "needles_sharps_plastic"),
         Frac(comp, "sharps_waste", "needles_sharps_metal"))

FossilOrganic(comp) == Frac(comp, "sharps_waste", "needles_sharps_plastic")

BiogenicOrganic(comp) == FSub(TotalOrganic(comp), FossilOrganic(comp))

TotalChlor(comp) ==
    FAdd(Frac(comp, "pharmaceutical_waste", "pharmaceuticals_halogenated"),
         Frac(comp, "chemical_waste", "cytotoxic_halogenated"))

(***************************************************************************)
(* IncinerationProcess.calculate_direct_emissions                          *)
(***************************************************************************)
FLUE_KEY == "incineration_flue_gas_efficiency"

\* if scenario and "incineration_flue_gas_efficiency" in scenario
HasFlueGasKey(scenario) ==
    /\ ~scenario.none
    /\ DOMAIN scenario.d # {}
    /\ FLUE_KEY \in DOMAIN scenario.d

\* efficiency = scenario["incineration_flue_gas_efficiency"]
FlueGasEfficiency(scenario) == scenario.d[FLUE_KEY]

\* fault: the nox factor left as it is
RescaleParticulatesOnly(f, efficiency) ==
    [f EXCEPT !.pm10_per_organic = FMul(@, FSub(FInt(1), efficiency)),
              !.pm25_per_organic = FMul(@, FSub(FInt(1), efficiency))]

\* the three f[...] *= (1 - efficiency)
RescaleFactors(f, efficiency) ==
    [f EXCEPT !.pm10_per_organic = FMul(@, FSub(FInt(1), efficiency)),
              !.pm25_per_organic = FMul(@, FSub(FInt(1), efficiency)),
              !.nox_per_waste    = FMul(@, FSub(FInt(1), efficiency))]

\* fault: the penalty added to the emission, not applied as a rate
CombustionPenaltyAdded(f, pm) ==
    IF FLt(Get(f, "combustion_efficiency", FInt(1)), Dec(95, 2))
    THEN FAdd(pm, FMul(FSub(Dec(95, 2), f.combustion_efficiency), FInt(2)))
    ELSE pm

\* fault: the penalty not doubled
CombustionPenaltySingle(f, pm) ==
    IF FLt(Get(f, "combustion_efficiency", FInt(1)), Dec(95, 2))
    THEN FMul(pm, FAdd(FInt(1), FSub(Dec(95, 2), f.combustion_efficiency)))
    ELSE pm

\* emissions[...] *= (1 + penalty) when combustion_efficiency < 0.95
CombustionPenalty(f, pm) ==
    IF FLt(Get(f, "combustion_efficiency", FInt(1)), Dec(95, 2))
    THEN FMul(pm, FAdd(FInt(1),
                       FMul(FSub(Dec(95, 2), f.combustion_efficiency), FInt(2))))
    ELSE pm

\* the emissions dict built from f, the stream's mass in kg and its composition
IncinerationEmissions(f, mass, comp) ==
    LET total_organic    == TotalOrganic(comp)
        fossil_organic   == FossilOrganic(comp)
        biogenic_organic == FSub(total_organic, fossil_organic)
        energy           == FMul(mass, f.energy_content)
    IN  [co2_fossil   |-> FMul(FMul(FMul(fossil_organic, energy),
                                    f.carbon_content_fossil), FDivInt(44, 12)),
         co2_biogenic |-> FMul(FMul(FMul(biogenic_organic, energy),
                                    f.carbon_content_biogenic), FDivInt(44, 12)),
         so2  |-> FMul(FMul(FMul(total_organic, mass), f.so2_conversion),
                       FDivInt(64, 32)),
         nox  |-> FMul(mass, f.nox_per_waste),
         pm10 |-> CombustionPenalty(f,
                      FMul(FMul(mass, total_organic), f.pm10_per_organic)),
         pm25 |-> CombustionPenalty(f,
                      FMul(FMul(mass, total_organic), f.pm25_per_organic)),
         hg   |-> FMul(FMul(mass, Frac(comp, "heavy_metals_waste", "mercury_waste")),
                       f.hg_volatilization),
         pb   |-> FMul(FMul(mass, Frac(comp, "heavy_metals_waste", "other_heavy_metals")),
                       f.pb_volatilization)]

(***************************************************************************)
(* PyrolysisProcess.calculate_direct_emissions                             *)
(***************************************************************************)
\* fault: pahs per kg of waste, not per kg of organic matter
PyrolysisEmissionsPerWaste(f, mass, comp) ==
    [co2_fossil |-> FMul(FMul(mass, TotalOrganic(comp)), f.co2_fossil_per_organic),
     ch4_fossil |-> FMul(FMul(mass, TotalOrganic(comp)), f.ch4_fossil_per_organic),
     nmvoc      |-> FMul(FMul(mass, TotalOrganic(comp)), f.nmvoc_per_organic),
     pahs       |-> FMul(mass, f.pahs_per_organic),
     dioxin     |-> FMul(FMul(mass, TotalChlor(comp)), f.dioxin_per_chlorinated),
     hg |-> FMul(FMul(mass, Frac(comp, "heavy_metals_waste", "mercury_waste")),
                 f.hg_per_mercury),
     pb |-> FMul(FMul(mass, Frac(comp, "heavy_metals_waste", "other_heavy_metals")),
                 f.pb_per_heavy_metal)]

\* fault: dioxin formed from the organic matter, not the chlorinated one
PyrolysisEmissionsOrganicDioxin(f, mass, comp) ==
    [co2_fossil |-> FMul(FMul(mass, TotalOrganic(comp)), f.co2_fossil_per_organic),
     ch4_fossil |-> FMul(FMul(mass, TotalOrganic(comp)), f.ch4_fossil_per_organic),
     nmvoc      |-> FMul(FMul(mass, TotalOrganic(comp)), f.nmvoc_per_organic),
     pahs       |-> FMul(FMul(mass, TotalOrganic(comp)), f.pahs_per_organic),
     dioxin     |-> FMul(FMul(mass, TotalOrganic(comp)), f.dioxin_per_chlorinated),
     hg |-> FMul(FMul(mass, Frac(comp, "heavy_metals_waste", "mercury_waste")),
                 f.hg_per_mercury),
     pb |-> FMul(FMul(mass, Frac(comp, "heavy_metals_waste", "other_heavy_metals")),
                 f.pb_per_heavy_metal)]

PyrolysisEmissions(f, mass, comp) ==
    LET total_organic == TotalOrganic(comp)
        total_chlor   == TotalChlor(comp)
    IN  [co2_fossil |-> FMul(FMul(mass, total_organic), f.co2_fossil_per_organic),
         ch4_fossil |-> FMul(FMul(mass, total_organic), f.ch4_fossil_per_organic),
         nmvoc      |-> FMul(FMul(mass, total_organic), f.nmvoc_per_organic),
         pahs       |-> FMul(FMul(mass, total_organic), f.pahs_per_organic),
         dioxin     |-> FMul(FMul(mass, total_chlor), f.dioxin_per_chlorinated),
         hg |-> FMul(FMul(mass, Frac(comp, "heavy_metals_waste", "mercury_waste")),
                     f.hg_per_mercury),
         pb |-> FMul(FMul(mass, Frac(comp, "heavy_metals_waste", "other_heavy_metals")),
                     f.pb_per_heavy_metal)]

(***************************************************************************)
(* WasteStream.adjust_for_segregation: the adjusted copy of a composition  *)
(***************************************************************************)
\* fault: the fraction removed kept, the fraction kept removed
ScaleByEfficiency(comp, cat, sub, efficiency) ==
    IF sub \in DOMAIN Get(comp, cat, EmptyDict)
    THEN [comp EXCEPT ![cat][sub] = FMul(@, efficiency)]
    ELSE comp

\* if sub in new_comp.get(cat, {}): new_comp[cat][sub] *= (1 - efficiency)
ScaleIfPresent(comp, cat, sub, efficiency) ==
    IF sub \in DOMAIN Get(comp, cat, EmptyDict)
    THEN [comp EXCEPT ![cat][sub] = FMul(@, FSub(FInt(1), efficiency))]
    ELSE comp

\* fault: the efficiency taken off the three fractions as an amount
SegregatedBySubtraction(comp, efficiency) ==
    [cat \in DOMAIN comp |->
        [sub \in DOMAIN comp[cat] |->
            IF <<cat, sub>> \in {<<"sharps_waste", "needles_sharps_plastic">>,
                                 <<"chemical_waste", "cytotoxic_organic">>,
                                 <<"chemical_waste", "lab_reagents">>}
            THEN FSub(comp[cat][sub], efficiency)
            ELSE comp[cat][sub]]]

SegregatedComposition(comp, efficiency) ==
    ScaleIfPresent(
        ScaleIfPresent(
            ScaleIfPresent(comp, "sharps_waste", "needles_sharps_plastic", efficiency),
            "chemical_waste", "cytotoxic_organic", efficiency),
        "chemical_waste", "lab_reagents", efficiency)

(***************************************************************************)
(* src/database.py: flows and activities of the inventory.  A biosphere    *)
(* flow is a record with its code; an absent value (None) and a value are  *)
(* told apart by the field none.                                           *)
(***************************************************************************)
None == [none |-> TRUE, code |-> ""]

Flow(code) == [none |-> FALSE, code |-> code]

\* flow_uuids of retrieve_flows
flow_uuids ==
    [co2_fossil      |-> "aa7cac3a-3625-41d4-bc54-33e2cf11ec46",
     co2_biogenic    |-> "d6235194-e4e6-4548-bfa3-ac095131aef4",
     ch4_fossil      |-> "70ef743b-3ed5-4a6d-b192-fb6d62378555",
     ch4_biogenic    |-> "da1157e2-7593-4dfd-80dd-a3449b37a4d8",
     nox             |-> "77357947-ccc5-438e-9996-95e65e1e1bce",
     so2             |-> "78c3efe4-421c-4d30-82e4-b97ac5124993",
     pm25            |-> "66f50b33-fd62-4fdd-a373-c5b0de7de00d",
     hg              |-> "5ec9c16a-959d-44cd-be7d-a935727d2151",
     pb              |-> "2718482b-8399-442e-b89a-52fbcc22d2e6",
     dioxin          |-> "f77c5e36-ee47-4437-b757-03139bb1d6d6",
     pahs            |-> "13d898ac-b9be-4723-a153-565e2a9144ac",
     nmvoc           |-> "33b38ccb-593b-4b11-b965-10d747ba3556",
     nh3             |-> "0f440cc0-0f74-446d-99d6-8ff0e97a2444",
     pm10            |-> "7678cec7-b8e1-439d-8242-99cd452834b1",
     chlorine_air    |-> "247ac273-60fa-4e21-9408-793f75fa1d37",
     land_occupation |-> "1eaa9ea4-40b8-414a-b198-5626400372e1"]

\* build_flow_index(bio_db): index[flow["code"]] = flow, for a database given
\* as the set of the codes of its flows
build_flow_index(bio_db) == [code \in bio_db |-> Flow(code)]

\* get_flow_by_uuid: the flow, or KeyError
get_flow_by_uuid(flow_index, uuid) ==
    IF uuid \in DOMAIN flow_index
    THEN [raised |-> FALSE, value |-> flow_index[uuid]]
    ELSE [raised |-> TRUE, value |-> None]

\* retrieve_flows: a KeyError of get_flow_by_uuid becomes flows[key] = None
retrieve_flows(flow_index) ==
    [key \in DOMAIN flow_uuids |->
        IF get_flow_by_uuid(flow_index, flow_uuids[key]).raised
        THEN None
        ELSE get_flow_by_uuid(flow_index, flow_uuids[key]).value]

\* flows = {}
EmptyFlows == [key \in {} |-> None]

\* create_activity(db, code, name): a saved activity without exchanges
create_activity(code, name) ==
    [code |-> code, name |-> name, unit |-> "kilogram", exchanges |-> << >>]

\* a pint quantity in kg
Kg(x) == [magnitude |-> x, units |-> "kilogram"]

\* 1e-15, the threshold of add_biosphere_exchanges
Negligible == Dec(1, 15)

(***************************************************************************)
(* State.  Python objects live on a heap: a composition dict is a cell of  *)
(* dicts and a WasteStream holds a reference (an index) to one, so that    *)
(* two streams, or a stream and config.DEFAULT_COMPOSITION, can share one  *)
(* dict object.  The factor table of a process is the shared table         *)
(* EMISSION_FACTORS[proc]; the local f of a call either aliases it or is a *)
(* private copy.                                                           *)
(***************************************************************************)
VARIABLES
    EMISSION_FACTORS,   \* config.EMISSION_FACTORS: process name -> factor dict
    dicts,              \* the composition dict objects; dicts[DefaultRef] is
                        \* config.DEFAULT_COMPOSITION
    streams,            \* the WasteStream objects: [mass, composition (a ref)]
    calls,              \* the calculate_direct_emissions frames, running or returned
    origin,             \* history: how each stream was made, what it held then
    loaded,             \* history: the shared tables as loaded
    act,                \* the inventory activity and the exchanges saved on it
    batch               \* the add_biosphere_exchanges frame, running or over

vars == <<EMISSION_FACTORS, dicts, streams, calls, origin, loaded, act, batch>>

\* the cell of config.DEFAULT_COMPOSITION
DefaultRef == 1

\* fault: no copy, the caller gets the dict at ref itself
ShareComposition(heap, ref) == [heap |-> heap, ref |-> ref]

\* copy.deepcopy(d) of the dict at ref: a new cell holding an equal value
DeepCopyComposition(heap, ref) ==
    [heap |-> Append(heap, heap[ref]), ref |-> Len(heap) + 1]

\* fault: f = self.factors where the code copies
AliasFactors(table) == [shared |-> TRUE, val |-> EmptyDict]

\* copy.deepcopy(self.factors): a private dict
CopyFactors(table) == [shared |-> FALSE, val |-> table]

\* f = self.factors: the shared dict itself
BindFactors(table) == [shared |-> TRUE, val |-> EmptyDict]

\* self.factors of the process object: the table of the process, which the
\* base class TreatmentProcess binds when the process is made
SelfFactors(proc) == EMISSION_FACTORS[proc]

\* the dict a frame's f denotes
FactorsOf(frame) ==
    IF frame.f.shared THEN SelfFactors(frame.proc) ELSE frame.f.val

NoScenario == [none |-> TRUE, d |-> EmptyDict]

Dict(d) == [none |-> FALSE, d |-> d]

StreamMass(i) == streams[i].mass

StreamComposition(i) == dicts[streams[i].composition]

\* no add_biosphere_exchanges call made yet
NoBatch ==
    [status |-> "none", emissions |-> << >>, flows |-> EmptyFlows, pos |-> 1,
     base |-> 0, failed |-> {}, n |-> 0]

(***************************************************************************)
(* Load time.  The incineration table is the shipped one up to its         *)
(* combustion_efficiency, which a deployment configures.                   *)
(***************************************************************************)
InitWith(combustion_efficiencies) ==
    /\ \E ce \in combustion_efficiencies :
          EMISSION_FACTORS =
              [INCINERATION |-> [INCINERATION_FACTORS EXCEPT
                                     !.combustion_efficiency = ce],
               PYROLYSIS    |-> PYROLYSIS_FACTORS]
    /\ dicts = <<DEFAULT_COMPOSITION>>
    /\ streams = << >>
    /\ calls = << >>
    /\ origin = << >>
    /\ loaded = [factors |-> EMISSION_FACTORS, composition |-> DEFAULT_COMPOSITION]
    /\ act = create_activity("incineration", "Incineration")
    /\ batch = NoBatch

\* the tables as shipped
Init == InitWith({INCINERATION_FACTORS.combustion_efficiency})

(***************************************************************************)
(* WasteStream                                                             *)
(***************************************************************************)
\* WasteStream(mass=m): default_factory deep-copies config.DEFAULT_COMPOSITION
NewDefaultStream(m) ==
    LET c == DeepCopyComposition(dicts, DefaultRef)
    IN  /\ dicts' = c.heap
        /\ streams' = Append(streams, [mass |-> m, composition |-> c.ref])
        /\ origin' = Append(origin, [mass |-> m, composition |-> c.heap[c.ref],
                                     parent |-> 0, efficiency |-> FZero])
        /\ UNCHANGED <<EMISSION_FACTORS, calls, loaded, act, batch>>

\* WasteStream(mass=m, composition=d) for a dict d that already exists:
\* the stream holds d itself
NewStream(m, ref) ==
    /\ ref \in 1..Len(dicts)
    /\ streams' = Append(streams, [mass |-> m, composition |-> ref])
    /\ origin' = Append(origin, [mass |-> m, composition |-> dicts[ref],
                                 parent |-> 0, efficiency |-> FZero])
    /\ UNCHANGED <<EMISSION_FACTORS, dicts, calls, loaded, act, batch>>

\* WasteStream(mass=m, composition={...}) for a dict written out by the caller
NewLiteralStream(m, comp) ==
    /\ dicts' = Append(dicts, comp)
    /\ streams' = Append(streams, [mass |-> m, composition |-> Len(dicts) + 1])
    /\ origin' = Append(origin, [mass |-> m, composition |-> comp,
                                 parent |-> 0, efficiency |-> FZero])
    /\ UNCHANGED <<EMISSION_FACTORS, calls, loaded, act, batch>>

\* streams[i].adjust_for_segregation(efficiency)
AdjustForSegregation(i, efficiency) ==
    /\ i \in 1..Len(streams)
    /\ LET c        == DeepCopyComposition(dicts, streams[i].composition)
           new_comp == SegregatedComposition(c.heap[c.ref], efficiency)
       IN  /\ dicts' = [c.heap EXCEPT ![c.ref] = new_comp]
           /\ streams' = Append(streams, [mass |-> streams[i].mass,
                                          composition |-> c.ref])
           /\ origin' = Append(origin, [mass |-> streams[i].mass,
                                        composition |-> new_comp,
                                        parent |-> i, efficiency |-> efficiency])
    /\ UNCHANGED <<EMISSION_FACTORS, calls, loaded, act, batch>>

(***************************************************************************)
(* calculate_direct_emissions, statement by statement, so that calls       *)
(* interleave                                                              *)
(***************************************************************************)
Frame(proc, i, scenario, pc, f) ==
    [proc |-> proc, waste |-> i, scenario |-> scenario, pc |-> pc, f |-> f,
     emissions |-> EmptyDict]

\* fault: IncinerationProcess binds f to the shared table, as Pyrolysis does
IncinerationCallBound(i, scenario) ==
    /\ i \in 1..Len(streams)
    /\ calls' = Append(calls, Frame("INCINERATION", i, scenario, "scenario",
                                    BindFactors(SelfFactors("INCINERATION"))))
    /\ UNCHANGED <<EMISSION_FACTORS, dicts, streams, origin, loaded, act, batch>>

\* IncinerationProcess: f = copy.deepcopy(self.factors)
IncinerationCall(i, scenario) ==
    /\ i \in 1..Len(streams)
    /\ calls' = Append(calls, Frame("INCINERATION", i, scenario, "scenario",
                                    CopyFactors(SelfFactors("INCINERATION"))))
    /\ UNCHANGED <<EMISSION_FACTORS, dicts, streams, origin, loaded, act, batch>>

\* IncinerationProcess: the flue-gas block, writing through f
IncinerationScenario(c) ==
    /\ c \in 1..Len(calls)
    /\ calls[c].proc = "INCINERATION"
    /\ calls[c].pc = "scenario"
    /\ IF HasFlueGasKey(calls[c].scenario)
       THEN LET f == RescaleFactors(FactorsOf(calls[c]),
                                    FlueGasEfficiency(calls[c].scenario))
            IN  IF calls[c].f.shared
                THEN /\ EMISSION_FACTORS' =
                            [EMISSION_FACTORS EXCEPT !.INCINERATION = f]
                     /\ calls' = [calls EXCEPT ![c].pc = "compute"]
                ELSE /\ calls' = [calls EXCEPT ![c].pc = "compute",
                                               ![c].f.val = f]
                     /\ UNCHANGED EMISSION_FACTORS
       ELSE /\ calls' = [calls EXCEPT ![c].pc = "compute"]
            /\ UNCHANGED EMISSION_FACTORS
    /\ UNCHANGED <<dicts, streams, origin, loaded, act, batch>>

\* IncinerationProcess: the formulas and the return
IncinerationCompute(c) ==
    /\ c \in 1..Len(calls)
    /\ calls[c].proc = "INCINERATION"
    /\ calls[c].pc = "compute"
    /\ calls' = [calls EXCEPT
                    ![c].pc = "done",
                    ![c].emissions =
                        IncinerationEmissions(FactorsOf(calls[c]),
                                              StreamMass(calls[c].waste),
                                              StreamComposition(calls[c].waste))]
    /\ UNCHANGED <<EMISSION_FACTORS, dicts, streams, origin, loaded, act, batch>>

\* PyrolysisProcess: f = self.factors
PyrolysisCall(i, scenario) ==
    /\ i \in 1..Len(streams)
    /\ calls' = Append(calls, Frame("PYROLYSIS", i, scenario, "compute",
                                    BindFactors(SelfFactors("PYROLYSIS"))))
    /\ UNCHANGED <<EMISSION_FACTORS, dicts, streams, origin, loaded, act, batch>>

\* fault: Pyrolysis honours the flue-gas key of a scenario
PyrolysisComputeCleaned(c) ==
    /\ c \in 1..Len(calls)
    /\ calls[c].proc = "PYROLYSIS"
    /\ calls[c].pc = "compute"
    /\ calls' = [calls EXCEPT
                    ![c].pc = "done",
                    ![c].emissions =
                        PyrolysisEmissions(
                            IF HasFlueGasKey(calls[c].scenario)
                            THEN [k \in DOMAIN FactorsOf(calls[c]) |->
                                     FMul(FactorsOf(calls[c])[k],
                                          FSub(FInt(1),
                                               FlueGasEfficiency(calls[c].scenario)))]
                            ELSE FactorsOf(calls[c]),
                            StreamMass(calls[c].waste),
                            StreamComposition(calls[c].waste))]
    /\ UNCHANGED <<EMISSION_FACTORS, dicts, streams, origin, loaded, act, batch>>

\* PyrolysisProcess: the formulas and the return
PyrolysisCompute(c) ==
    /\ c \in 1..Len(calls)
    /\ calls[c].proc = "PYROLYSIS"
    /\ calls[c].pc = "compute"
    /\ calls' = [calls EXCEPT
                    ![c].pc = "done",
                    ![c].emissions =
                        PyrolysisEmissions(FactorsOf(calls[c]),
                                           StreamMass(calls[c].waste),
                                           StreamComposition(calls[c].waste))]
    /\ UNCHANGED <<EMISSION_FACTORS, dicts, streams, origin, loaded, act, batch>>

(***************************************************************************)
(* add_biosphere_exchanges(act, emissions, flows), iteration by iteration. *)
(* emissions is the dict in its insertion order, a sequence of items.      *)
(***************************************************************************)
\* the item the loop is at
Item(b) == b.emissions[b.pos]

\* flow_obj = flows.get(flow_name)
FlowObj(b) == Get(b.flows, Item(b).flow_name, None)

\* the loop is at an item
AtItem(b) == b.status = "running" /\ b.pos \in 1..Len(b.emissions)

\* the exchange act.new_exchange(...) makes for the item
NewExchange(b) ==
    [amount |-> Item(b).amount.magnitude, type |-> "biosphere",
     unit |-> Item(b).amount.units, input |-> FlowObj(b).code]

\* fault: no try around the exchange, the exception leaves the function
ExchangeFailedRaises ==
    /\ AtItem(batch)
    /\ ~FlowObj(batch).none
    /\ ~FLe(FAbs(Item(batch).amount.magnitude), Negligible)
    /\ batch' = [batch EXCEPT !.status = "raised"]
    /\ UNCHANGED <<EMISSION_FACTORS, dicts, streams, calls, origin, loaded, act>>

\* the call: the loop starts at the first item
AddBiosphereExchanges(emissions, flows) ==
    /\ batch.status # "running"
    /\ batch' = [status |-> "running", emissions |-> emissions, flows |-> flows,
                 pos |-> 1, base |-> Len(act.exchanges), failed |-> {},
                 n |-> batch.n + 1]
    /\ UNCHANGED <<EMISSION_FACTORS, dicts, streams, calls, origin, loaded, act>>

\* flow_obj is None: logged, continue
ExchangeMissingFlow ==
    /\ AtItem(batch)
    /\ FlowObj(batch).none
    /\ batch' = [batch EXCEPT !.pos = @ + 1]
    /\ UNCHANGED <<EMISSION_FACTORS, dicts, streams, calls, origin, loaded, act>>

\* abs(amount.magnitude) <= 1e-15: continue
ExchangeNegligible ==
    /\ AtItem(batch)
    /\ ~FlowObj(batch).none
    /\ FLe(FAbs(Item(batch).amount.magnitude), Negligible)
    /\ batch' = [batch EXCEPT !.pos = @ + 1]
    /\ UNCHANGED <<EMISSION_FACTORS, dicts, streams, calls, origin, loaded, act>>

\* act.new_exchange(...).save() returns: the exchange is on the activity
ExchangeSaved ==
    /\ AtItem(batch)
    /\ ~FlowObj(batch).none
    /\ ~FLe(FAbs(Item(batch).amount.magnitude), Negligible)
    /\ act' = [act EXCEPT !.exchanges = Append(@, NewExchange(batch))]
    /\ batch' = [batch EXCEPT !.pos = @ + 1]
    /\ UNCHANGED <<EMISSION_FACTORS, dicts, streams, calls, origin, loaded>>

\* act.new_exchange(...).save() raises: except Exception logs it, using
\* act['name'], and the loop goes on
ExchangeFailed ==
    /\ AtItem(batch)
    /\ ~FlowObj(batch).none
    /\ ~FLe(FAbs(Item(batch).amount.magnitude), Negligible)
    /\ batch' = [batch EXCEPT !.pos = @ + 1, !.failed = @ \cup {batch.pos}]
    /\ UNCHANGED <<EMISSION_FACTORS, dicts, streams, calls, origin, loaded, act>>

\* the loop is over: the function returns
ExchangesReturn ==
    /\ batch.status = "running"
    /\ batch.pos = Len(batch.emissions) + 1
    /\ batch' = [batch EXCEPT !.status = "returned"]
    /\ UNCHANGED <<EMISSION_FACTORS, dicts, streams, calls, origin, loaded, act>>

(***************************************************************************)
(* Inputs of the callers.                                                  *)
(***************************************************************************)
\* a partial composition whose seven organic entries cancel to 0
CancellingComposition ==
    [general_waste      |-> [non_hazardous |-> FNeg(Dec(2, 2))],
     sharps_waste       |-> [needles_sharps_plastic |-> Dec(2, 2)],
     chemical_waste     |-> [lab_reagents |-> Dec(3, 2),
                             cytotoxic_halogenated |-> Dec(5, 3)],
     heavy_metals_waste |-> [mercury_waste |-> Dec(15, 3)]]

\* a composition without organic matter: metals, halogenated and inert only
InorganicComposition ==
    [general_waste        |-> [non_hazardous |-> FZero],
     sharps_waste         |-> [needles_sharps_metal |-> Dec(2, 1)],
     pharmaceutical_waste |-> [pharmaceuticals_halogenated |-> Dec(1, 2)],
     chemical_waste       |-> [lab_reagents |-> Dec(3, 2),
                               cytotoxic_halogenated |-> Dec(5, 3)],
     heavy_metals_waste   |-> [mercury_waste      |-> Dec(15, 3),
                               other_heavy_metals |-> Dec(15, 3)],
     radioactive_waste    |-> [radioactive_metals |-> Dec(5, 3)]]

\* a caller that starts a call only when the one before has returned
NoCallRunning == \A c \in 1..Len(calls) : calls[c].pc = "done"

(***************************************************************************)
(* Spec, the object model: streams made and segregated in any order, the   *)
(* calls of two processes interleaved statement by statement.              *)
(***************************************************************************)
MaxStreams == 2

MaxCalls == 2

Masses == {FInt(100)}

InputCompositions == {CancellingComposition}

Efficiencies == {Dec(5, 1)}

Scenarios ==
    {NoScenario, Dict([incineration_flue_gas_efficiency |-> Dec(5, 1)])}

Next ==
    \/ \E m \in Masses : Len(streams) < MaxStreams /\ NewDefaultStream(m)
    \/ \E m \in Masses, ref \in 1..Len(dicts) :
          Len(streams) < MaxStreams /\ NewStream(m, ref)
    \/ \E m \in Masses, comp \in InputCompositions :
          Len(streams) < MaxStreams /\ NewLiteralStream(m, comp)
    \/ \E i \in 1..Len(streams), e \in Efficiencies :
          Len(streams) < MaxStreams /\ AdjustForSegregation(i, e)
    \/ \E i \in 1..Len(streams), s \in Scenarios :
          Len(calls) < MaxCalls /\ IncinerationCall(i, s)
    \/ \E i \in 1..Len(streams), s \in Scenarios :
          Len(calls) < MaxCalls /\ PyrolysisCall(i, s)
    \/ \E c \in 1..Len(calls) : IncinerationScenario(c)
    \/ \E c \in 1..Len(calls) : IncinerationCompute(c)
    \/ \E c \in 1..Len(calls) : PyrolysisCompute(c)

Spec == Init /\ [][Next]_vars

(***************************************************************************)
(* Properties of Spec                                                      *)
(***************************************************************************)
DoneCalls == {c \in 1..Len(calls) : calls[c].pc = "done"}

\* 2^k
FPow2(k) == [neg |-> FALSE, m |-> BShl(<<1>>, Prec - 1), e |-> k - (Prec - 1)]

\* |x - y| <= |y| * 2^k
FClose(x, y, k) == FLe(FAbs(FSub(x, y)), FMul(FAbs(y), FPow2(k)))

\* C1: after any sequence of WasteStream constructions, adjust_for_segregation
\* calls and Incineration or Pyrolysis calculate_direct_emissions calls, with
\* any scenario, the shared factor table of each process and the default
\* composition table hold exactly the values they had at load time.
C1_SharedTablesAsLoaded ==
    /\ EMISSION_FACTORS = loaded.factors
    /\ dicts[DefaultRef] = loaded.composition

\* a stream built on the default table itself was segregated, an Incineration
\* call with flue-gas cleaning and a Pyrolysis call have returned
C1_Witness ==
    /\ \E i \in 1..Len(streams) :
          /\ origin[i].parent # 0
          /\ streams[origin[i].parent].composition = DefaultRef
          /\ dicts[streams[i].composition] # dicts[DefaultRef]
    /\ \E c \in DoneCalls :
          calls[c].proc = "INCINERATION" /\ HasFlueGasKey(calls[c].scenario)
    /\ \E c \in DoneCalls : calls[c].proc = "PYROLYSIS"

\* C3: a WasteStream is never mutated in place: whatever segregations and
\* calculations ran, every stream has the mass and the fractions it was made
\* with, and the stream adjust_for_segregation returned holds a composition
\* dict of its own, not the dict of any stream made before it nor the default
\* table.
C3_StreamsNeverMutated ==
    \A i \in 1..Len(streams) :
        /\ streams[i].mass = origin[i].mass
        /\ dicts[streams[i].composition] = origin[i].composition
        /\ origin[i].parent # 0 =>
              /\ streams[i].composition # DefaultRef
              /\ \A j \in 1..(i - 1) : streams[j].composition # streams[i].composition

\* a stream was segregated into one with other fractions, and an Incineration
\* and a Pyrolysis call on the original have returned
C3_Witness ==
    \E i \in 1..Len(streams) :
        /\ origin[i].parent # 0
        /\ origin[i].composition # origin[origin[i].parent].composition
        /\ \E c \in DoneCalls :
              calls[c].proc = "INCINERATION" /\ calls[c].waste = origin[i].parent
        /\ \E c \in DoneCalls :
              calls[c].proc = "PYROLYSIS" /\ calls[c].waste = origin[i].parent

\* what a call computes from its own inputs and the tables as loaded
ResultOf(proc, mass, comp, scenario) ==
    IF proc = "INCINERATION"
    THEN IncinerationEmissions(
             IF HasFlueGasKey(scenario)
             THEN RescaleFactors(loaded.factors.INCINERATION,
                                 FlueGasEfficiency(scenario))
             ELSE loaded.factors.INCINERATION,
             mass, comp)
    ELSE PyrolysisEmissions(loaded.factors.PYROLYSIS, mass, comp)

\* C8: the result of a calculate_direct_emissions call depends only on its own
\* waste stream, process and scenario: whatever calls ran before it or are
\* interleaved with it, it is what the formulas give for its stream and its
\* scenario from the tables as loaded.
C8_ResultFromOwnInputs ==
    \A c \in DoneCalls :
        calls[c].emissions =
            ResultOf(calls[c].proc, origin[calls[c].waste].mass,
                     origin[calls[c].waste].composition, calls[c].scenario)

\* two Incineration calls on one stream have returned, the first started with
\* flue-gas cleaning, the second without a scenario, with different results
C8_Witness ==
    \E c1 \in DoneCalls, c2 \in DoneCalls :
        /\ c1 < c2
        /\ calls[c1].proc = "INCINERATION" /\ calls[c2].proc = "INCINERATION"
        /\ calls[c1].waste = calls[c2].waste
        /\ HasFlueGasKey(calls[c1].scenario)
        /\ calls[c2].scenario = NoScenario
        /\ calls[c1].emissions # calls[c2].emissions

\* the returned Incineration calls without a scenario on a 100 kg stream of
\* the default composition
DefaultCaseCalls ==
    {c \in DoneCalls :
        /\ calls[c].proc = "INCINERATION"
        /\ calls[c].scenario = NoScenario
        /\ origin[calls[c].waste].mass = FInt(100)
        /\ origin[calls[c].waste].composition = DEFAULT_COMPOSITION}

\* C9 (as the code computes it): for a 100 kg stream of the default
\* composition, Incineration with the default factors and no scenario has
\* fossil organic exactly 0.02 and energy exactly 530; total organic, biogenic
\* organic and nox are the floats next to 0.907, 0.887 and 4.3e-4 (within
\* 2^-52 of them, relatively); co2_fossil is the float product
\* 0.02 * 530 * 0.097 * (44/12), between 3.765 and 3.775, and co2_biogenic
\* is between 93.05 and 93.15.
C9_DefaultCase ==
    \A c \in DefaultCaseCalls :
        LET comp == origin[calls[c].waste].composition
            e    == calls[c].emissions
        IN  /\ FClose(TotalOrganic(comp), Dec(907, 3), 0 - 52)
            /\ FossilOrganic(comp) = Dec(2, 2)
            /\ FClose(BiogenicOrganic(comp), Dec(887, 3), 0 - 52)
            /\ FMul(origin[calls[c].waste].mass,
                    loaded.factors.INCINERATION.energy_content) = FInt(530)
            /\ e.co2_fossil = FMul(FMul(FMul(Dec(2, 2), FInt(530)), Dec(97, 3)),
                                   FDivInt(44, 12))
            /\ FLt(Dec(3765, 3), e.co2_fossil) /\ FLt(e.co2_fossil, Dec(3775, 3))
            /\ FLt(Dec(9305, 2), e.co2_biogenic) /\ FLt(e.co2_biogenic, Dec(9315, 2))
            /\ FClose(e.nox, Dec(43, 5), 0 - 52)

C9_Witness == DefaultCaseCalls # {}

\* C9 (as stated): total organic is 0.907, biogenic organic is 0.887 and nox
\* is 4.3e-4
C9_AsStated ==
    \A c \in DefaultCaseCalls :
        /\ TotalOrganic(origin[calls[c].waste].composition) = Dec(907, 3)
        /\ BiogenicOrganic(origin[calls[c].waste].composition) = Dec(887, 3)
        /\ calls[c].emissions.nox = Dec(43, 5)

(***************************************************************************)
(* SpecSeg, segregation: chains of adjust_for_segregation on a default and *)
(* on a partial stream, with the efficiencies of SegBase and, for every    *)
(* two of them, the single efficiency the caller computes for both steps.  *)
(***************************************************************************)
MaxSegStreams == 4

\* streams made from scratch, the others are segregated from them
MaxSegRoots == 1

SegBase == {FZero, Dec(3, 1), FInt(1)}

\* 1 - (1 - e1) * (1 - e2), as the caller's Python computes it
CombinedEfficiency(e1, e2) ==
    FSub(FInt(1), FMul(FSub(FInt(1), e1), FSub(FInt(1), e2)))

SegEfficiencies ==
    SegBase \cup {CombinedEfficiency(e1, e2) : e1 \in SegBase, e2 \in SegBase}

NextSeg ==
    \/ \E m \in Masses : Len(streams) < MaxSegRoots /\ NewDefaultStream(m)
    \/ \E m \in Masses, comp \in InputCompositions :
          Len(streams) < MaxSegRoots /\ NewLiteralStream(m, comp)
    \/ \E i \in 1..Len(streams), e \in SegEfficiencies :
          Len(streams) < MaxSegStreams /\ AdjustForSegregation(i, e)

SpecSeg == Init /\ [][NextSeg]_vars

(***************************************************************************)
(* Properties of SpecSeg                                                   *)
(***************************************************************************)
\* the three fractions adjust_for_segregation reduces
Hazardous ==
    {<<"sharps_waste", "needles_sharps_plastic">>,
     <<"chemical_waste", "cytotoxic_organic">>,
     <<"chemical_waste", "lab_reagents">>}

\* the streams adjust_for_segregation returned
Adjusted == {i \in 1..Len(streams) : origin[i].parent # 0}

\* C2: adjust_for_segregation(efficiency) returns a stream in which each of
\* the three fractions is the original fraction multiplied by
\* (1 - efficiency) and every other fraction and the mass are the original's;
\* efficiency 1.0 makes the three exactly 0, efficiency 0.0 leaves them
\* unchanged.
C2_SegregationScalesThree ==
    \A i \in Adjusted :
        LET old == origin[origin[i].parent].composition
            new == dicts[streams[i].composition]
            e   == origin[i].efficiency
        IN  /\ streams[i].mass = origin[origin[i].parent].mass
            /\ DOMAIN new = DOMAIN old
            /\ \A cat \in DOMAIN old :
                  /\ DOMAIN new[cat] = DOMAIN old[cat]
                  /\ \A sub \in DOMAIN old[cat] :
                        new[cat][sub] =
                            IF <<cat, sub>> \in Hazardous
                            THEN FMul(old[cat][sub], FSub(FInt(1), e))
                            ELSE old[cat][sub]
            /\ e = FInt(1) => \A h \in Hazardous : Frac(new, h[1], h[2]) = FZero
            /\ e = FZero =>
                  \A h \in Hazardous : Frac(new, h[1], h[2]) = Frac(old, h[1], h[2])

\* one stream was segregated with efficiency 1.0, with efficiency 0.0 and with
\* an efficiency in between that changed its fractions
C2_Witness ==
    \E i \in Adjusted, j \in Adjusted, k \in Adjusted :
        /\ origin[i].parent = origin[j].parent /\ origin[j].parent = origin[k].parent
        /\ origin[i].efficiency = FInt(1)
        /\ origin[j].efficiency = FZero
        /\ origin[k].efficiency = Dec(3, 1)
        /\ \A h \in Hazardous :
              /\ Frac(origin[k].composition, h[1], h[2])
                    # Frac(origin[j].composition, h[1], h[2])
              /\ Frac(origin[j].composition, h[1], h[2]) # FZero

\* a stream i segregated with e1 into j and j with e2 into k, and i segregated
\* into s with the single efficiency 1 - (1 - e1)(1 - e2), all in [0, 1]
TwoStepsAndOne ==
    {q \in Adjusted \X Adjusted \X Adjusted :
        /\ origin[q[2]].parent = q[1]
        /\ origin[q[1]].parent # 0
        /\ origin[q[3]].parent = origin[q[1]].parent
        /\ FLe(FZero, origin[q[1]].efficiency) /\ FLe(origin[q[1]].efficiency, FInt(1))
        /\ FLe(FZero, origin[q[2]].efficiency) /\ FLe(origin[q[2]].efficiency, FInt(1))
        /\ origin[q[3]].efficiency =
              CombinedEfficiency(origin[q[1]].efficiency, origin[q[2]].efficiency)}

\* C4 (as the code computes it): adjust_for_segregation(e1) and then
\* adjust_for_segregation(e2), for e1 and e2 in [0, 1], gives each of the
\* three hazardous fractions the value of a single
\* adjust_for_segregation(1 - (1 - e1)(1 - e2)) up to rounding: the two differ
\* by at most 2^-50 times the original fraction, and are equal when e1 and e2
\* are each 0 or 1.
C4_SegregationComposes ==
    \A q \in TwoStepsAndOne :
        \A h \in Hazardous :
            LET v     == Frac(origin[origin[q[1]].parent].composition, h[1], h[2])
                two   == Frac(dicts[streams[q[2]].composition], h[1], h[2])
                one   == Frac(dicts[streams[q[3]].composition], h[1], h[2])
            IN  /\ FLe(FAbs(FSub(two, one)), FMul(FAbs(v), FPow2(0 - 50)))
                /\ ( /\ origin[q[1]].efficiency \in {FZero, FInt(1)}
                     /\ origin[q[2]].efficiency \in {FZero, FInt(1)} ) => two = one

\* two steps of 0.3 and the single step for them gave different fractions
C4_Witness ==
    \E q \in TwoStepsAndOne :
        /\ origin[q[1]].efficiency = Dec(3, 1)
        /\ origin[q[2]].efficiency = Dec(3, 1)
        /\ \E h \in Hazardous :
              Frac(dicts[streams[q[2]].composition], h[1], h[2])
                  # Frac(dicts[streams[q[3]].composition], h[1], h[2])

\* C4 (as stated): the two steps and the single step give the same value for
\* each of the three hazardous fractions
C4_AsStated ==
    \A q \in TwoStepsAndOne :
        \A h \in Hazardous :
            Frac(dicts[streams[q[2]].composition], h[1], h[2])
                = Frac(dicts[streams[q[3]].composition], h[1], h[2])

(***************************************************************************)
(* SpecEmis, the emission formulas: one caller, calls one after the other, *)
(* on streams of two masses, with and without flue-gas cleaning, the       *)
(* incineration table with and without a combustion penalty.               *)
(***************************************************************************)
MaxEmisStreams == 2

MaxEmisCalls == 2

CombustionEfficiencies == {Dec(97, 2), Dec(90, 2)}

EmisMasses == {FInt(100), FInt(200)}

EmisCompositions == {CancellingComposition, InorganicComposition}

EmisScenarios ==
    {NoScenario,
     Dict([incineration_flue_gas_efficiency |-> Dec(99, 2)]),
     Dict([incineration_flue_gas_efficiency |-> FInt(1)])}

InitEmis == InitWith(CombustionEfficiencies)

NextEmis ==
    \/ \E m \in EmisMasses :
          Len(streams) < MaxEmisStreams /\ NoCallRunning /\ NewDefaultStream(m)
    \/ \E m \in EmisMasses, comp \in EmisCompositions :
          Len(streams) < MaxEmisStreams /\ NoCallRunning /\ NewLiteralStream(m, comp)
    \/ \E i \in 1..Len(streams), s \in EmisScenarios :
          Len(calls) < MaxEmisCalls /\ NoCallRunning /\ IncinerationCall(i, s)
    \/ \E i \in 1..Len(streams), s \in EmisScenarios :
          Len(calls) < MaxEmisCalls /\ NoCallRunning /\ PyrolysisCall(i, s)
    \/ \E c \in 1..Len(calls) : IncinerationScenario(c)
    \/ \E c \in 1..Len(calls) : IncinerationCompute(c)
    \/ \E c \in 1..Len(calls) : PyrolysisCompute(c)

SpecEmis == InitEmis /\ [][NextEmis]_vars

(***************************************************************************)
(* Properties of SpecEmis                                                  *)
(***************************************************************************)
\* the mass and the composition a returned call was given
MassOf(c) == origin[calls[c].waste].mass

CompositionOf(c) == origin[calls[c].waste].composition

\* two returned calls of one process with one scenario on one composition,
\* the second on twice the mass of the first
DoubledPairs ==
    {q \in DoneCalls \X DoneCalls :
        /\ calls[q[1]].proc = calls[q[2]].proc
        /\ calls[q[1]].scenario = calls[q[2]].scenario
        /\ CompositionOf(q[1]) = CompositionOf(q[2])
        /\ MassOf(q[2]) = FMul(FInt(2), MassOf(q[1]))}

\* C5: for a fixed composition, factor table and scenario, doubling the waste
\* mass exactly doubles every emission calculate_direct_emissions returns, for
\* Incineration (with the combustion penalty and the flue-gas rescaling too)
\* and for Pyrolysis.
C5_DoublingMass ==
    \A q \in DoubledPairs :
        /\ DOMAIN calls[q[2]].emissions = DOMAIN calls[q[1]].emissions
        /\ \A k \in DOMAIN calls[q[1]].emissions :
              calls[q[2]].emissions[k] = FMul(FInt(2), calls[q[1]].emissions[k])

\* Incineration ran on a mass and on its double, with flue-gas cleaning and
\* under a combustion penalty, and returned particulates
C5_Witness ==
    \E q \in DoubledPairs :
        /\ calls[q[1]].proc = "INCINERATION"
        /\ HasFlueGasKey(calls[q[1]].scenario)
        /\ FLt(loaded.factors.INCINERATION.combustion_efficiency, Dec(95, 2))
        /\ calls[q[1]].emissions.pm10 # FZero
        /\ calls[q[1]].emissions.nox # FZero

\* the returned calls on a composition whose seven-term organic sum is 0
ZeroOrganicCalls == {c \in DoneCalls : TotalOrganic(CompositionOf(c)) = FZero}

\* C6 (as the code computes it): whenever the seven-term total organic
\* fraction of the composition is 0, Incineration returns pm10 and pm25
\* exactly 0 and Pyrolysis returns co2_fossil, ch4_fossil, nmvoc and pahs
\* exactly 0, for every mass; Incineration's co2_fossil and co2_biogenic are
\* exactly 0 when the fossil fraction sharps_waste.needles_sharps_plastic is
\* 0 as well.
C6_ZeroOrganic ==
    \A c \in ZeroOrganicCalls :
        IF calls[c].proc = "INCINERATION"
        THEN /\ calls[c].emissions.pm10 = FZero
             /\ calls[c].emissions.pm25 = FZero
             /\ FossilOrganic(CompositionOf(c)) = FZero =>
                   /\ calls[c].emissions.co2_fossil = FZero
                   /\ calls[c].emissions.co2_biogenic = FZero
        ELSE /\ calls[c].emissions.co2_fossil = FZero
             /\ calls[c].emissions.ch4_fossil = FZero
             /\ calls[c].emissions.nmvoc = FZero
             /\ calls[c].emissions.pahs = FZero

\* Incineration returned for a composition whose organic entries cancel to 0
\* around a fossil fraction that is not 0
C6_Witness ==
    \E c \in ZeroOrganicCalls :
        /\ calls[c].proc = "INCINERATION"
        /\ FossilOrganic(CompositionOf(c)) # FZero
        /\ calls[c].emissions.pm10 = FZero
        /\ calls[c].emissions.hg # FZero

\* C6 (as stated): whenever the total organic fraction is 0, co2_fossil,
\* co2_biogenic, pm10, pm25, nmvoc, pahs and ch4_fossil are exactly 0
C6_AsStated ==
    \A c \in ZeroOrganicCalls :
        \A k \in DOMAIN calls[c].emissions \cap
                    {"co2_fossil", "co2_biogenic", "pm10", "pm25", "nmvoc", "pahs",
                     "ch4_fossil"} :
            calls[c].emissions[k] = FZero

\* two returned Incineration calls on one stream, the first without a
\* scenario, the second with flue-gas cleaning
CleanedPairs ==
    {q \in DoneCalls \X DoneCalls :
        /\ calls[q[1]].proc = "INCINERATION" /\ calls[q[2]].proc = "INCINERATION"
        /\ calls[q[1]].waste = calls[q[2]].waste
        /\ calls[q[1]].scenario = NoScenario
        /\ ~calls[q[2]].scenario.none
        /\ FLUE_KEY \in DOMAIN calls[q[2]].scenario.d}

\* C7 (as the code computes it): a scenario carrying
\* incineration_flue_gas_efficiency = e leaves co2_fossil, co2_biogenic, so2,
\* hg and pb unchanged and makes pm10, pm25 and nox (1 - e) times their value
\* without the scenario up to rounding (within 2^-50 of it, relatively: the
\* factor is scaled, not the emission); with e = 1.0 the three are exactly 0.
C7_FlueGasCleaning ==
    \A q \in CleanedPairs :
        LET e    == calls[q[2]].scenario.d[FLUE_KEY]
            base == calls[q[1]].emissions
            got  == calls[q[2]].emissions
        IN  /\ \A k \in {"pm10", "pm25", "nox"} :
                  FClose(got[k], FMul(FSub(FInt(1), e), base[k]), 0 - 50)
            /\ \A k \in {"co2_fossil", "co2_biogenic", "so2", "hg", "pb"} :
                  got[k] = base[k]
            /\ e = FInt(1) =>
                  got.pm10 = FZero /\ got.pm25 = FZero /\ got.nox = FZero

\* cleaning with efficiency 0.99 returned a nox that is not 0.01 times the
\* uncleaned one
C7_Witness ==
    \E q \in CleanedPairs :
        /\ calls[q[2]].scenario.d[FLUE_KEY] = Dec(99, 2)
        /\ calls[q[1]].emissions.pm10 # FZero
        /\ calls[q[2]].emissions.nox
              # FMul(FSub(FInt(1), Dec(99, 2)), calls[q[1]].emissions.nox)

\* C7 (as stated): pm10, pm25 and nox equal (1 - e) times their value without
\* the scenario
C7_AsStated ==
    \A q \in CleanedPairs :
        \A k \in {"pm10", "pm25", "nox"} :
            calls[q[2]].emissions[k] =
                FMul(FSub(FInt(1), calls[q[2]].scenario.d[FLUE_KEY]),
                     calls[q[1]].emissions[k])

(***************************************************************************)
(* SpecScen, the scenario argument: one caller, calls one after the other, *)
(* with no scenario, an empty one, and ones with keys a process does not   *)
(* know.                                                                   *)
(***************************************************************************)
MaxScenStreams == 1

MaxScenCalls == 2

ScenScenarios ==
    {NoScenario,
     Dict(EmptyDict),
     Dict([segregation_efficiency |-> Dec(5, 1)]),
     Dict([incineration_flue_gas_efficiency |-> Dec(99, 2),
           segregation_efficiency |-> Dec(5, 1)])}

NextScen ==
    \/ \E m \in Masses :
          Len(streams) < MaxScenStreams /\ NoCallRunning /\ NewDefaultStream(m)
    \/ \E m \in Masses, comp \in InputCompositions :
          Len(streams) < MaxScenStreams /\ NoCallRunning /\ NewLiteralStream(m, comp)
    \/ \E i \in 1..Len(streams), s \in ScenScenarios :
          Len(calls) < MaxScenCalls /\ NoCallRunning /\ IncinerationCall(i, s)
    \/ \E i \in 1..Len(streams), s \in ScenScenarios :
          Len(calls) < MaxScenCalls /\ NoCallRunning /\ PyrolysisCall(i, s)
    \/ \E c \in 1..Len(calls) : IncinerationScenario(c)
    \/ \E c \in 1..Len(calls) : IncinerationCompute(c)
    \/ \E c \in 1..Len(calls) : PyrolysisCompute(c)

SpecScen == Init /\ [][NextScen]_vars

(***************************************************************************)
(* Properties of SpecScen                                                  *)
(***************************************************************************)
\* two returned calls of one process on one stream, the first without a
\* scenario, the second with a scenario whose keys the process does not know
UnknownKeyPairs ==
    {q \in DoneCalls \X DoneCalls :
        /\ calls[q[1]].proc = calls[q[2]].proc
        /\ calls[q[1]].waste = calls[q[2]].waste
        /\ calls[q[1]].scenario = NoScenario
        /\ calls[q[1]].proc = "INCINERATION" =>
              FLUE_KEY \notin DOMAIN calls[q[2]].scenario.d}

\* C10: scenario keys a process does not recognise are ignored without error:
\* Incineration with a scenario without incineration_flue_gas_efficiency,
\* whatever other keys it holds, and Pyrolysis with every scenario, also one
\* holding incineration_flue_gas_efficiency, return what they return without
\* a scenario.
C10_UnknownKeysIgnored ==
    \A q \in UnknownKeyPairs : calls[q[2]].emissions = calls[q[1]].emissions

\* Pyrolysis returned for a scenario holding incineration_flue_gas_efficiency
\* and another key, after a call without a scenario
C10_Witness ==
    \E q \in UnknownKeyPairs :
        /\ calls[q[2]].proc = "PYROLYSIS"
        /\ DOMAIN calls[q[2]].scenario.d =
              {FLUE_KEY, "segregation_efficiency"}
        /\ calls[q[2]].emissions.dioxin # FZero


(***************************************************************************)
(* SpecComp, the composition argument: one caller, calls one after the     *)
(* other, on compositions that lack categories or subcategories, on the    *)
(* same compositions with every entry written out, and on compositions     *)
(* that differ in their organic entries.                                   *)
(***************************************************************************)
MaxCompStreams == 3

MaxCompCalls == 2

\* a composition without three categories, with a category that is an empty
\* dict and categories that lack subcategories
HollowComposition ==
    [general_waste        |-> [non_hazardous |-> Dec(65, 2)],
     sharps_waste         |-> EmptyDict,
     pharmaceutical_waste |-> [pharmaceuticals_halogenated |-> Dec(1, 2)],
     chemical_waste       |-> [lab_reagents |-> Dec(3, 2)],
     heavy_metals_waste   |-> [mercury_waste |-> Dec(15, 3)]]

\* composition = {}
EmptyComposition == EmptyDict

\* the default composition with other organic fractions
LeanComposition ==
    [DEFAULT_COMPOSITION EXCEPT
        !.general_waste.non_hazardous = Dec(30, 2),
        !.infectious_waste.body_fluids = Dec(5, 2),
        !.sharps_waste.needles_sharps_plastic = FZero]

\* comp with every entry of the default composition it lacks written out as 0
ZeroFilled(comp) ==
    [cat \in DOMAIN DEFAULT_COMPOSITION |->
        [sub \in DOMAIN DEFAULT_COMPOSITION[cat] |->
            IF cat \in DOMAIN comp
            THEN IF sub \in DOMAIN comp[cat] THEN comp[cat][sub] ELSE FZero
            ELSE FZero]]

CompCompositions ==
    {HollowComposition, EmptyComposition, LeanComposition,
     ZeroFilled(HollowComposition), ZeroFilled(EmptyComposition)}

NextComp ==
    \/ \E m \in Masses :
          Len(streams) < MaxCompStreams /\ NoCallRunning /\ NewDefaultStream(m)
    \/ \E m \in Masses, comp \in CompCompositions :
          Len(streams) < MaxCompStreams /\ NoCallRunning /\ NewLiteralStream(m, comp)
    \/ \E i \in 1..Len(streams), e \in Efficiencies :
          Len(streams) < MaxCompStreams /\ NoCallRunning /\ AdjustForSegregation(i, e)
    \/ \E i \in 1..Len(streams) :
          Len(calls) < MaxCompCalls /\ NoCallRunning /\ IncinerationCall(i, NoScenario)
    \/ \E i \in 1..Len(streams) :
          Len(calls) < MaxCompCalls /\ NoCallRunning /\ PyrolysisCall(i, NoScenario)
    \/ \E c \in 1..Len(calls) : IncinerationScenario(c)
    \/ \E c \in 1..Len(calls) : IncinerationCompute(c)
    \/ \E c \in 1..Len(calls) : PyrolysisCompute(c)

SpecComp == Init /\ [][NextComp]_vars

(***************************************************************************)
(* Properties of SpecComp                                                  *)
(***************************************************************************)
\* comp lacks a category or a subcategory of the default composition
Partial(comp) ==
    \E cat \in DOMAIN DEFAULT_COMPOSITION :
        \/ cat \notin DOMAIN comp
        \/ \E sub \in DOMAIN DEFAULT_COMPOSITION[cat] : sub \notin DOMAIN comp[cat]

\* two returned calls of one process on one mass, the first on a partial
\* composition, the second on that composition with the missing entries 0
ZeroFilledPairs ==
    {q \in DoneCalls \X DoneCalls :
        /\ calls[q[1]].proc = calls[q[2]].proc
        /\ MassOf(q[1]) = MassOf(q[2])
        /\ Partial(CompositionOf(q[1]))
        /\ CompositionOf(q[2]) = ZeroFilled(CompositionOf(q[1]))}

\* the streams adjust_for_segregation returned for a partial composition
AdjustedPartial == {i \in Adjusted : Partial(origin[origin[i].parent].composition)}

\* C11: a composition that lacks categories or subcategories is accepted:
\* Incineration and Pyrolysis return for it what they return for the
\* composition with each missing entry set to 0, and adjust_for_segregation
\* returns a stream whose composition has the categories and subcategories of
\* the partial one and no others.
C11_PartialCompositions ==
    /\ \A q \in ZeroFilledPairs : calls[q[1]].emissions = calls[q[2]].emissions
    /\ \A c \in DoneCalls :
          Partial(CompositionOf(c)) =>
              DOMAIN calls[c].emissions =
                  IF calls[c].proc = "INCINERATION"
                  THEN {"co2_fossil", "co2_biogenic", "so2", "nox", "pm10",
                        "pm25", "hg", "pb"}
                  ELSE {"co2_fossil", "ch4_fossil", "nmvoc", "pahs", "dioxin",
                        "hg", "pb"}
    /\ \A i \in AdjustedPartial :
          LET old == origin[origin[i].parent].composition
              new == dicts[streams[i].composition]
          IN  /\ DOMAIN new = DOMAIN old
              /\ \A cat \in DOMAIN old : DOMAIN new[cat] = DOMAIN old[cat]

\* both processes returned for a composition that lacks categories and for
\* the same composition written out, with a non-zero emission, and a partial
\* composition was segregated
C11_Witness ==
    /\ \E q \in ZeroFilledPairs :
          /\ "sharps_waste" \in DOMAIN CompositionOf(q[1])
          /\ "infectious_waste" \notin DOMAIN CompositionOf(q[1])
          /\ calls[q[1]].emissions.hg # FZero
    /\ \E i \in AdjustedPartial :
          "cytotoxic_organic" \notin
              DOMAIN Get(dicts[streams[i].composition], "chemical_waste", EmptyDict)


(***************************************************************************)
(* SpecExch, the inventory: emission maps recorded on the activity, one    *)
(* add_biosphere_exchanges call after the other, against biosphere         *)
(* databases that hold all, some or none of the flows; saving an exchange  *)
(* succeeds or raises.                                                     *)
(***************************************************************************)
MaxBatches == 2

Codes == {flow_uuids[key] : key \in DOMAIN flow_uuids}

\* biosphere databases: complete, without two of the flows, empty
BioDatabases ==
    {Codes, Codes \ {flow_uuids.co2_fossil, flow_uuids.pm10}, {}}

Entry(flow_name, x) == [flow_name |-> flow_name, amount |-> Kg(x)]

\* emission maps: amounts above, at and below 1e-15, negative ones, and a
\* pollutant retrieve_flows has no identifier for
EmissionMaps ==
    {<<Entry("co2_fossil", Dec(377, 2)),
       Entry("co2_biogenic", FNeg(Dec(9308, 2))),
       Entry("nox", Dec(43, 5)),
       Entry("pm10", Dec(1, 15)),
       Entry("pm25", FZero),
       Entry("hg", Dec(1000001, 21))>>,
     <<Entry("hcl", Dec(2, 1)),
       Entry("dioxin", Dec(371, 13)),
       Entry("pb", FNeg(Dec(1, 15)))>>}

NextExch ==
    \/ \E emissions \in EmissionMaps, bio_db \in BioDatabases :
          /\ batch.n < MaxBatches
          /\ AddBiosphereExchanges(emissions,
                                   retrieve_flows(build_flow_index(bio_db)))
    \/ ExchangeMissingFlow
    \/ ExchangeNegligible
    \/ ExchangeSaved
    \/ ExchangeFailed
    \/ ExchangesReturn

SpecExch == Init /\ [][NextExch]_vars

(***************************************************************************)
(* Properties of SpecExch                                                  *)
(***************************************************************************)
\* item k of the batch has a flow: flows holds the flow of its identifier
Resolved(b, k) ==
    /\ b.emissions[k].flow_name \in DOMAIN flow_uuids
    /\ b.flows[b.emissions[k].flow_name] =
           Flow(flow_uuids[b.emissions[k].flow_name])

\* the magnitude of item k exceeds 1e-15
Exceeds(b, k) == FLt(Dec(1, 15), FAbs(b.emissions[k].amount.magnitude))

\* the exchanges the first n items of the batch are to leave on the
\* activity: one for each resolved item above 1e-15 whose save did not raise
RECURSIVE Due(_, _)
Due(b, n) ==
    IF n = 0 THEN << >>
    ELSE IF Resolved(b, n) /\ Exceeds(b, n) /\ n \notin b.failed
         THEN Append(Due(b, n - 1),
                     [amount |-> b.emissions[n].amount.magnitude,
                      type   |-> "biosphere",
                      unit   |-> "kilogram",
                      input  |-> flow_uuids[b.emissions[n].flow_name]])
         ELSE Due(b, n - 1)

\* the exchanges saved on the activity since the batch began
SavedInBatch == SubSeq(act.exchanges, batch.base + 1, Len(act.exchanges))

\* C12: add_biosphere_exchanges processes every entry of the emissions map to
\* the end: no exception leaves it, it returns only after the last entry, and
\* the exchanges it leaves on the activity are, in order, one for each
\* pollutant whose magnitude exceeds 1e-15, whose flow is resolved and whose
\* save did not raise; a pollutant at or below 1e-15, or whose flow
\* retrieve_flows mapped to None or does not know, leaves none; the entries
\* after a missing flow or a failed save are recorded all the same.
C12_EveryEntryProcessed ==
    /\ batch.status # "raised"
    /\ batch.status = "returned" => batch.pos = Len(batch.emissions) + 1
    /\ batch.status \in {"running", "returned"} =>
          /\ SavedInBatch = Due(batch, batch.pos - 1)
          /\ \A key \in DOMAIN batch.flows :
                batch.flows[key] \in {None, Flow(flow_uuids[key])}

\* a batch returned in which a pollutant without a flow came first, then one
\* whose save raised, then one that was recorded, then one at the threshold
C12_Witness ==
    /\ batch.status = "returned"
    /\ \E i, j, k, l \in 1..Len(batch.emissions) :
          /\ i < j /\ j < k /\ k < l
          /\ batch.emissions[i].flow_name \in DOMAIN batch.flows
          /\ batch.flows[batch.emissions[i].flow_name] = None
          /\ j \in batch.failed
          /\ Resolved(batch, k) /\ Exceeds(batch, k) /\ k \notin batch.failed
          /\ Resolved(batch, l) /\ ~Exceeds(batch, l)
    /\ Len(SavedInBatch) >= 2


(***************************************************************************)
(* SpecPen, the combustion penalty: Incineration calls on the default      *)
(* stream, with and without flue-gas cleaning, for incineration tables     *)
(* whose combustion_efficiency lies below, at and above 0.95.              *)
(***************************************************************************)
MaxPenStreams == 1

MaxPenCalls == 2

PenCombustionEfficiencies == {Dec(90, 2), Dec(94, 2), Dec(95, 2), Dec(97, 2)}

PenScenarios ==
    {NoScenario,
     Dict([incineration_flue_gas_efficiency |-> Dec(5, 1)]),
     Dict([incineration_flue_gas_efficiency |-> Dec(99, 2)])}

InitPen == InitWith(PenCombustionEfficiencies)

NextPen ==
    \/ \E m \in EmisMasses :
          Len(streams) < MaxPenStreams /\ NewDefaultStream(m)
    \/ \E i \in 1..Len(streams), s \in PenScenarios :
          Len(calls) < MaxPenCalls /\ IncinerationCall(i, s)
    \/ \E c \in 1..Len(calls) : IncinerationScenario(c)
    \/ \E c \in 1..Len(calls) : IncinerationCompute(c)

SpecPen == InitPen /\ [][NextPen]_vars

(***************************************************************************)
(* Properties of SpecPen                                                   *)
(***************************************************************************)
\* the returned Incineration calls
DoneIncinerations == {c \in DoneCalls : calls[c].proc = "INCINERATION"}

\* combustion_efficiency of the incineration table
LoadedCombustionEfficiency == loaded.factors.INCINERATION.combustion_efficiency

\* the factor k of the table as call c uses it: scaled by (1 - e) when the
\* scenario of c carries a flue-gas efficiency e
ScenarioFactor(c, k) ==
    IF HasFlueGasKey(calls[c].scenario)
    THEN FMul(loaded.factors.INCINERATION[k],
              FSub(FInt(1), calls[c].scenario.d[FLUE_KEY]))
    ELSE loaded.factors.INCINERATION[k]

\* mass * total_organic * factor, the particulate emission before the penalty
Unpenalised(c, k) ==
    FMul(FMul(MassOf(c), TotalOrganic(CompositionOf(c))), ScenarioFactor(c, k))

\* 1 + penalty for combustion_efficiency ce, in floats
PenaltyRate(ce) == FAdd(FInt(1), FMul(FSub(Dec(95, 2), ce), FInt(2)))

\* what call c returns when the table's combustion_efficiency is 1.0
WithoutPenalty(c) ==
    IncinerationEmissions(
        [loaded.factors.INCINERATION EXCEPT
            !.combustion_efficiency = FInt(1),
            !.pm10_per_organic = ScenarioFactor(c, "pm10_per_organic"),
            !.pm25_per_organic = ScenarioFactor(c, "pm25_per_organic"),
            !.nox_per_waste = ScenarioFactor(c, "nox_per_waste")],
        MassOf(c), CompositionOf(c))

\* C13: in Incineration, when combustion_efficiency c < 0.95, pm10 and pm25
\* are mass * total_organic * (factor * (1 - e)), the value computed from the
\* scenario-rescaled factor, multiplied by 1 + (0.95 - c) * 2; when c >= 0.95
\* they are that value itself; the penalty changes no other pollutant; for
\* c = 0.90 the multiplier is 1.1 up to one rounding error, not the float 1.1.
C13_CombustionPenalty ==
    \A c \in DoneIncinerations :
        /\ \A k \in {"pm10", "pm25"} :
              calls[c].emissions[k] =
                  IF FLt(LoadedCombustionEfficiency, Dec(95, 2))
                  THEN FMul(Unpenalised(c, IF k = "pm10" THEN "pm10_per_organic"
                                                         ELSE "pm25_per_organic"),
                            PenaltyRate(LoadedCombustionEfficiency))
                  ELSE Unpenalised(c, IF k = "pm10" THEN "pm10_per_organic"
                                                    ELSE "pm25_per_organic")
        /\ \A k \in DOMAIN calls[c].emissions \ {"pm10", "pm25"} :
              calls[c].emissions[k] = WithoutPenalty(c)[k]
        /\ LoadedCombustionEfficiency = Dec(90, 2) =>
              /\ PenaltyRate(LoadedCombustionEfficiency) # Dec(11, 1)
              /\ FClose(PenaltyRate(LoadedCombustionEfficiency), Dec(11, 1), -52)

\* Incineration returned for combustion_efficiency 0.90 and a flue-gas
\* scenario, with particulates above their unpenalised value
C13_Witness ==
    \E c \in DoneIncinerations :
        /\ LoadedCombustionEfficiency = Dec(90, 2)
        /\ HasFlueGasKey(calls[c].scenario)
        /\ FLt(Unpenalised(c, "pm10_per_organic"), calls[c].emissions.pm10)
        /\ FLt(Unpenalised(c, "pm25_per_organic"), calls[c].emissions.pm25)

\* C13 (as stated): combustion_efficiency 0.90 multiplies pm10 and pm25 by
\* exactly 1.1
C13_AsStated ==
    \A c \in DoneIncinerations :
        LoadedCombustionEfficiency = Dec(90, 2) =>
            /\ calls[c].emissions.pm10 =
                   FMul(Unpenalised(c, "pm10_per_organic"), Dec(11, 1))
            /\ calls[c].emissions.pm25 =
                   FMul(Unpenalised(c, "pm25_per_organic"), Dec(11, 1))


(***************************************************************************)
(* Properties of SpecComp: dioxin of Pyrolysis                             *)
(***************************************************************************)
\* the seven entries of the total organic fraction
OrganicEntries ==
    {<<"general_waste", "non_hazardous">>,
     <<"infectious_waste", "body_fluids">>,
     <<"infectious_waste", "lab_cultures">>,
     <<"pharmaceutical_waste", "pharmaceuticals">>,
     <<"chemical_waste", "cytotoxic_organic">>,
     <<"radioactive_waste", "radioactive_organic">>,
     <<"sharps_waste", "needles_sharps_plastic">>}

\* the entries a composition can hold
Entries ==
    {<<cat, sub>> : cat \in DOMAIN DEFAULT_COMPOSITION,
                    sub \in {"non_hazardous", "body_fluids", "lab_cultures",
                             "needles_sharps_plastic", "needles_sharps_metal",
                             "pharmaceuticals", "pharmaceuticals_halogenated",
                             "lab_reagents", "lab_cultures_disinfectants",
                             "cytotoxic_organic", "cytotoxic_halogenated",
                             "mercury_waste", "other_heavy_metals",
                             "radioactive_metals", "radioactive_organic"}}

\* the value of entry h in comp, absent told apart from 0
EntryOf(comp, h) ==
    IF h[1] \in DOMAIN comp
    THEN IF h[2] \in DOMAIN comp[h[1]]
         THEN <<comp[h[1]][h[2]]>>
         ELSE << >>
    ELSE << >>

\* two returned Pyrolysis calls on one mass whose compositions differ in
\* organic entries only
OrganicVariedPairs ==
    {q \in DoneCalls \X DoneCalls :
        /\ calls[q[1]].proc = "PYROLYSIS"
        /\ calls[q[2]].proc = "PYROLYSIS"
        /\ MassOf(q[1]) = MassOf(q[2])
        /\ \A h \in Entries \ OrganicEntries :
              EntryOf(CompositionOf(q[1]), h) = EntryOf(CompositionOf(q[2]), h)}

\* C14: in Pyrolysis, dioxin is mass * (pharmaceuticals_halogenated +
\* cytotoxic_halogenated) * dioxin_per_chlorinated, and two streams of equal
\* mass whose compositions differ only in the seven organic entries return
\* the same dioxin value.
C14_DioxinFromChlorinated ==
    /\ \A c \in DoneCalls :
          calls[c].proc = "PYROLYSIS" =>
              calls[c].emissions.dioxin =
                  FMul(FMul(MassOf(c),
                            FAdd(Get(Get(CompositionOf(c), "pharmaceutical_waste",
                                         EmptyDict),
                                     "pharmaceuticals_halogenated", FZero),
                                 Get(Get(CompositionOf(c), "chemical_waste",
                                         EmptyDict),
                                     "cytotoxic_halogenated", FZero))),
                       loaded.factors.PYROLYSIS.dioxin_per_chlorinated)
    /\ \A q \in OrganicVariedPairs :
          calls[q[1]].emissions.dioxin = calls[q[2]].emissions.dioxin

\* Pyrolysis returned for two streams with the same chlorinated entries and
\* different organic fractions, with dioxin and different organic emissions
C14_Witness ==
    \E q \in OrganicVariedPairs :
        /\ TotalOrganic(CompositionOf(q[1])) # TotalOrganic(CompositionOf(q[2]))
        /\ calls[q[1]].emissions.dioxin # FZero
        /\ calls[q[1]].emissions.pahs # calls[q[2]].emissions.pahs

=============================================================================
